---- MODULE Spec2Model ----
(***************************************************************************)
(* Content-addressed step ledger, step materializer, asset derivation      *)
(* orchestrator and asset accessor of the backend (database.py, server.py, *)
(* tts.py, tripo.py).                                                      *)
(*                                                                         *)
(* The file store ("volume/") is a function from file names to contents,   *)
(* the ledger is the `instructions` table as seen through the one shared   *)
(* sqlite connection, keyed by (hash, step).  One upload/pipeline request  *)
(* and one audio request may be in flight at a time; their steps are the   *)
(* segments of the coroutines between two suspension points.               *)
(***************************************************************************)
EXTENDS Integers, Sequences, FiniteSets, TLC

\* ------------------------------------------------------------------ bounds
NumContents == 1      \* distinct document byte contents that may be uploaded
MaxRuns == 2          \* upload-and-process requests in one behaviour
MaxDeletes == 1       \* files removed from the store by something outside the server
DigestLen == 3        \* hex characters of a digest (64 in the program)
PrefixLen == 2        \* hex characters of the visible key (16 in the program)
NumNames == 2         \* distinct filenames a client may upload a document under
MaxTextLen == 3       \* characters of a title or a description the classifier writes

Contents == 1..NumContents
Kinds == {"mp3", "glb"}

\* ------------------------------------------------------------- identities
\* hashlib.sha256 over the bytes: a function of the content only.
SHA256(bytes) == [i \in 1..DigestLen |-> IF i = 1 THEN bytes.doc ELSE 0]
EmptyHash == << >>
\* pdf_hash.hex()[:16]
HashHex(h) == SubSeq(h, 1, IF Len(h) < PrefixLen THEN Len(h) ELSE PrefixLen)

\* ------------------------------------------------------------- file names
NoFile == [kind |-> "none", key |-> << >>, n |-> 0, ext |-> ""]
\* f"{hash_hex}-{step}{ext}"
StepFile(hash_hex, step, ext) == [kind |-> "step", key |-> hash_hex, n |-> step, ext |-> ext]
\* f"{file_prefix}_img_{image_counter:03d}.{image_ext}", file_prefix unique per extraction
SourceImage(run, idx, ext) == [kind |-> "src", key |-> <<run>>, n |-> idx, ext |-> ext]
\* f"{file_prefix}_manual.txt"
ManualFile(run) == [kind |-> "manual", key |-> <<run>>, n |-> 0, ext |-> "txt"]
PdfFile == [kind |-> "pdf", key |-> << >>, n |-> 0, ext |-> "pdf"]
\* volume/<file.filename> for the n-th filename a client may choose
PdfNamed(n) == [PdfFile EXCEPT !.n = n]

\* ---------------------------------------------------------- file contents
PdfBytes(c) == [type |-> "pdf", doc |-> c, n |-> 0, text |-> << >>]
ImageBytes(c, idx) == [type |-> "image", doc |-> c, n |-> idx, text |-> << >>]
TextBytes(t) == [type |-> "text", doc |-> 0, n |-> 0, text |-> t]
AudioBytes(t) == [type |-> "audio", doc |-> 0, n |-> 0, text |-> t]
ModelBytes(img) == [type |-> "model", doc |-> img.doc, n |-> img.n, text |-> << >>]
NoBytes == [type |-> "none", doc |-> 0, n |-> 0, text |-> << >>]

\* Path.exists()
PathExists(fs, name) == name \in DOMAIN fs
\* open(path, "w").write(bytes)
WriteFile(fs, name, bytes) == [x \in DOMAIN fs \cup {name} |-> IF x = name THEN bytes ELSE fs[x]]
RemoveFile(fs, name) == [x \in DOMAIN fs \ {name} |-> fs[x]]
ReadFile(fs, name) == IF name \in DOMAIN fs THEN fs[name] ELSE NoBytes

\* ------------------------------------------------------------------- text
LF == "\n"
Whitespace == {LF, " "}

RECURSIVE LStrip(_)
LStrip(s) == IF s # << >> /\ Head(s) \in Whitespace THEN LStrip(Tail(s)) ELSE s
RECURSIVE RStrip(_)
RStrip(s) == IF s # << >> /\ s[Len(s)] \in Whitespace THEN RStrip(SubSeq(s, 1, Len(s) - 1)) ELSE s
\* str.strip()
Strip(s) == RStrip(LStrip(s))

\* index of the first "\n\n" in s, 0 when there is none
FirstBlankLine(s) ==
    LET hits == {i \in 1..(Len(s) - 1) : s[i] = LF /\ s[i + 1] = LF}
    IN IF hits = {} THEN 0 ELSE CHOOSE i \in hits : \A j \in hits : i <= j

\* f"{title}\n\n{description}"
InstructionText(title, description) == title \o <<LF, LF>> \o description

\* content = f.read().strip(); parts = content.split("\n\n", 1);
\* description = parts[1] if len(parts) > 1 else parts[0]
DescriptionOf(raw) ==
    LET content == Strip(raw)
        at == FirstBlankLine(content)
    IN IF at = 0 THEN content ELSE SubSeq(content, at + 2, Len(content))

\* ------------------------------------------------------------- extraction
\* extract_pdf_content: the images of a document, in order, with their
\* position metadata (None when the extractor could not resolve one).
NullNum == -1
NoPosition == [present |-> FALSE, page_number |-> NullNum, y_percentage |-> NullNum]
NumImages(c) == IF c = 1 THEN 2 ELSE 1
ImageExt(c, idx) == IF idx = 0 THEN "png" ELSE "jpeg"
ImagePosition(c, idx) ==
    IF idx = 0 THEN [present |-> TRUE, page_number |-> 0, y_percentage |-> 10 * c]
    ELSE NoPosition
ExtractedImages(run, c) == [i \in 1..NumImages(c) |-> SourceImage(run, i - 1, ImageExt(c, i - 1))]
ExtractedPositions(c) == [i \in 1..NumImages(c) |-> ImagePosition(c, i - 1)]

\* --------------------------------------------------------- classification
\* One judgment of the classifier.  The text is what the classifier wrote
\* for the image it names.
TitleOf(idx) == <<"T", IF idx = 0 THEN "a" ELSE "b">>
DescriptionText(idx) == <<"d", IF idx = 0 THEN "a" ELSE "b">>
Judgment(idx, instr) ==
    [image_index |-> idx, is_instruction |-> instr,
     instruction_title |-> TitleOf(idx), instruction_description |-> DescriptionText(idx)]
\* The result sets the classifier may return for n images: one entry per
\* image slot, in any order, each instructional or not; an instructional
\* entry may name an index outside the image list.
Judgments(n) == {Judgment(i, TRUE) : i \in 0..n} \cup {Judgment(0, FALSE)}
ClassifierResults(n) == [1..n -> Judgments(n)]

\* [m for m in results.get("matches", []) if m.get("is_instruction")]
RECURSIVE Instructional(_)
Instructional(matches) ==
    IF matches = << >> THEN << >>
    ELSE IF Head(matches).is_instruction THEN <<Head(matches)>> \o Instructional(Tail(matches))
    ELSE Instructional(Tail(matches))

\* ----------------------------------------------------------------- ledger
\* SELECT ... WHERE hash = ?
RowsOf(led, h) == {k \in DOMAIN led : k[1] = h}
StepsOf(led, h) == {k[2] : k \in RowsOf(led, h)}
\* fault: the position of the image is not stored
NewRowUnplaced(pdf_filename, image_filename, instruction_filename, position_data) ==
    [pdf_filename |-> pdf_filename,
     image_filename |-> image_filename,
     glb_filename |-> NoFile,
     mp3_filename |-> NoFile,
     instruction_filename |-> instruction_filename,
     page_number |-> NullNum,
     y_percentage |-> NullNum]
\* INSERT INTO instructions ... VALUES (...): glb and mp3 are added later
NewRow(pdf_filename, image_filename, instruction_filename, position_data) ==
    [pdf_filename |-> pdf_filename,
     image_filename |-> image_filename,
     glb_filename |-> NoFile,
     mp3_filename |-> NoFile,
     instruction_filename |-> instruction_filename,
     page_number |-> IF position_data.present THEN position_data.page_number ELSE NullNum,
     y_percentage |-> IF position_data.present THEN position_data.y_percentage ELSE NullNum]
InsertRow(led, h, step, row) ==
    [k \in DOMAIN led \cup {<<h, step>>} |-> IF k = <<h, step>> THEN row ELSE led[k]]
\* fault: the audio column is never written
update_mp3_skipped(led, h, step, name) == led
\* UPDATE instructions SET mp3_filename = ? WHERE hash = ? AND step = ?
update_mp3_filename(led, h, step, name) ==
    [k \in DOMAIN led |-> IF k = <<h, step>> THEN [led[k] EXCEPT !.mp3_filename = name] ELSE led[k]]
\* fault: the model's name is written into the image column
update_image_filename(led, h, step, name) ==
    [k \in DOMAIN led |-> IF k = <<h, step>> THEN [led[k] EXCEPT !.image_filename = name] ELSE led[k]]
\* UPDATE instructions SET glb_filename = ? WHERE hash = ? AND step = ?
update_glb_filename(led, h, step, name) ==
    [k \in DOMAIN led |-> IF k = <<h, step>> THEN [led[k] EXCEPT !.glb_filename = name] ELSE led[k]]

\* fault: the re-ingestion guard never finds the document
NeverStored(led, h) == FALSE
\* existing_count > 0: the re-ingestion guard of store_gemini_results
AlreadyStored(led, h) == RowsOf(led, h) # {}

\* fault: every classifier entry is taken for a step
EveryEntry(match) == TRUE
\* match.get("is_instruction")
IsInstruction(match) == match.is_instruction

\* fault: the copy is named after the image, not after the step
NameByImage(hash_hex, step_number, image_index, ext) == StepFile(hash_hex, image_index, ext)
\* new_image_filename = f"{hash_hex}-{step_number}{old_image_path.suffix}"
NewImageFilename(hash_hex, step_number, image_index, ext) == StepFile(hash_hex, step_number, ext)

\* The loop of store_gemini_results over gemini_results["matches"], from
\* entry i on with step_number steps already numbered.  a holds the call's
\* arguments.  An image_index outside image_filenames raises (IndexError)
\* and leaves the rows and files written so far in place.
RECURSIVE StoreLoop(_, _, _, _, _)
StoreLoop(a, i, step_number, led, fs) ==
    IF i > Len(a.matches)
    THEN [ledger |-> led, files |-> fs, steps |-> step_number, outcome |-> "stored"]
    ELSE LET match == a.matches[i] IN
         IF ~IsInstruction(match)
         THEN StoreLoop(a, i + 1, step_number, led, fs)
         ELSE IF match.image_index >= Len(a.image_filenames)
         THEN [ledger |-> led, files |-> fs, steps |-> step_number, outcome |-> "raised"]
         ELSE LET hash_hex == HashHex(a.pdf_hash)
                  image_index == match.image_index
                  old_image == a.image_filenames[image_index + 1]
                  new_image == NewImageFilename(hash_hex, step_number, image_index, old_image.ext)
                  instruction == StepFile(hash_hex, step_number, "txt")
                  fs1 == IF PathExists(fs, old_image)
                         THEN WriteFile(fs, new_image, fs[old_image])
                         ELSE fs
                  fs2 == WriteFile(fs1, instruction,
                             TextBytes(InstructionText(match.instruction_title,
                                                       match.instruction_description)))
                  position_data == IF a.image_positions # << >> /\ image_index < Len(a.image_positions)
                                   THEN a.image_positions[image_index + 1]
                                   ELSE NoPosition
              IN IF <<a.pdf_hash, step_number>> \in DOMAIN led
                 THEN [ledger |-> led, files |-> fs2, steps |-> step_number, outcome |-> "raised"]
                 ELSE StoreLoop(a, i + 1, step_number + 1,
                          InsertRow(led, a.pdf_hash, step_number,
                                    NewRow(a.pdf_filename, new_image, instruction, position_data)),
                          fs2)

\* store_gemini_results(pdf_hash_bytes, pdf_filename, image_filenames,
\* gemini_results, image_positions)
store_gemini_results(a, led, fs) ==
    IF a.pdf_hash = EmptyHash
    THEN [ledger |-> led, files |-> fs, steps |-> 0, outcome |-> "empty"]
    ELSE IF AlreadyStored(led, a.pdf_hash)
    THEN [ledger |-> led, files |-> fs, steps |-> 0, outcome |-> "skipped"]
    ELSE StoreLoop(a, 1, 0, led, fs)

\* fault: the filename is hashed along with the bytes
HashOfNamedFile(fs, path) ==
    IF PathExists(fs, path)
    THEN [i \in 1..DigestLen |-> IF i = 2 THEN path.n + 1 ELSE SHA256(fs[path])[i]]
    ELSE EmptyHash
\* calculate_pdf_hash: the digest of the file, b'' when it is not found
calculate_pdf_hash(fs, path) == IF PathExists(fs, path) THEN SHA256(fs[path]) ELSE EmptyHash

\* ------------------------------------------------------------ ledger reads
RECURSIVE Ascending(_)
Ascending(S) ==
    IF S = {} THEN << >>
    ELSE LET m == CHOOSE x \in S : \A y \in S : x <= y
         IN <<m>> \o Ascending(S \ {m})

\* SELECT step, instruction_filename ... WHERE hash = ? ORDER BY step
get_instructions_by_hash(led, h) ==
    LET steps == Ascending(StepsOf(led, h))
    IN [i \in 1..Len(steps) |-> <<steps[i], led[<<h, steps[i]>>].instruction_filename>>]
\* fault: one more step is reported than the ledger holds for the document
get_instructions_and_next(led, h) ==
    LET steps == Ascending(StepsOf(led, h))
    IN [i \in 1..(Len(steps) + 1) |->
           IF i <= Len(steps) THEN <<steps[i], led[<<h, steps[i]>>].image_filename>>
           ELSE <<Len(steps), StepFile(HashHex(h), Len(steps), "png")>>]
\* SELECT step, image_filename ... WHERE hash = ? ORDER BY step
get_instructions_with_images(led, h) ==
    LET steps == Ascending(StepsOf(led, h))
    IN [i \in 1..Len(steps) |-> <<steps[i], led[<<h, steps[i]>>].image_filename>>]

\* the LIKE pattern character _ (any one character), which is no hex digit
AnyChar == 16
\* hex(hash) LIKE hash_hex.upper() || '%'
Like(hash_hex, h) ==
    /\ Len(hash_hex) <= Len(h)
    /\ \A i \in 1..Len(hash_hex) : hash_hex[i] = AnyChar \/ hash_hex[i] = h[i]
\* the rows get_file_info_by_hash_step / get_step_position may fetch
MatchingRows(led, hash_hex, step) == {k \in DOMAIN led : k[2] = step /\ Like(hash_hex, k[1])}
\* the rows get_pdf_filename_by_hash may fetch (LIMIT 1)
MatchingDocs(led, hash_hex) == {k \in DOMAIN led : Like(hash_hex, k[1])}

\* ------------------------------------------------------------ orchestrator
\* fault: no output is ever found in the store
NeverDerived(fs, name) == FALSE
\* fault: only audio outputs are looked for in the store
DerivedAudioOnly(fs, name) == name.ext = "mp3" /\ PathExists(fs, name)
\* mp3_path.exists() / glb_path.exists(): the output is already derived
AlreadyDerived(fs, name) == PathExists(fs, name)

NewTask(step, text, bytes, existed) ==
    [step |-> step, text |-> text, bytes |-> bytes, result |-> "pending", existed |-> existed]

\* The loop of generate_tts_files over the rows, from row i on.  Opening an
\* instruction file that is not in the store raises out of the function.
RECURSIVE TtsPrepareLoop(_, _, _, _, _, _, _)
TtsPrepareLoop(rows, i, h, hash_hex, led, fs, acc0) ==
    IF i > Len(rows)
    THEN [ledger |-> led, tasks |-> acc0.tasks, reused |-> acc0.reused, raised |-> FALSE]
    ELSE LET step == rows[i][1]
             instruction_filename == rows[i][2]
             expected_mp3_filename == StepFile(hash_hex, step, "mp3")
         IN IF AlreadyDerived(fs, expected_mp3_filename)
            THEN TtsPrepareLoop(rows, i + 1, h, hash_hex,
                     update_mp3_filename(led, h, step, expected_mp3_filename), fs,
                     [acc0 EXCEPT !.reused = Append(@, step)])
            ELSE IF ~PathExists(fs, instruction_filename)
            THEN [ledger |-> led, tasks |-> acc0.tasks, reused |-> acc0.reused, raised |-> TRUE]
            ELSE TtsPrepareLoop(rows, i + 1, h, hash_hex, led, fs,
                     [acc0 EXCEPT !.tasks = Append(@,
                         NewTask(step, DescriptionOf(fs[instruction_filename].text), NoBytes,
                                 expected_mp3_filename \in DOMAIN fs))])

\* The loop of generate_3d_models over the rows, from row i on.
RECURSIVE GlbPrepareLoop(_, _, _, _, _, _, _)
GlbPrepareLoop(rows, i, h, hash_hex, led, fs, acc0) ==
    IF i > Len(rows)
    THEN [ledger |-> led, tasks |-> acc0.tasks, reused |-> acc0.reused, raised |-> FALSE]
    ELSE LET step == rows[i][1]
             image_filename == rows[i][2]
             expected_glb_filename == StepFile(hash_hex, step, "glb")
         IN IF AlreadyDerived(fs, expected_glb_filename)
            THEN GlbPrepareLoop(rows, i + 1, h, hash_hex,
                     update_glb_filename(led, h, step, expected_glb_filename), fs,
                     [acc0 EXCEPT !.reused = Append(@, step)])
            ELSE GlbPrepareLoop(rows, i + 1, h, hash_hex, led, fs,
                     [acc0 EXCEPT !.tasks = Append(@,
                         NewTask(step, << >>, ReadFile(fs, image_filename),
                                 expected_glb_filename \in DOMAIN fs))])

NoTasks == [tasks |-> << >>, reused |-> << >>]

\* fault: gather without return_exceptions, one error is the whole result
GatheredFailFast(tasks) ==
    [i \in 1..Len(tasks) |->
        IF \E j \in 1..Len(tasks) : tasks[j].result = "exc" THEN "exc" ELSE tasks[i].result]
\* asyncio.gather(..., return_exceptions=True): a raised error is one more
\* result, at the position of the task that raised it.
Gathered(tasks) == [i \in 1..Len(tasks) |-> tasks[i].result]

\* fault: the collaborator names its output after the step alone
OutputWithoutHash(hash_hex, step, kind) == StepFile(<< >>, step, kind)
\* the filename tts and image_to_model return: f"{pdf_hash_hex}-{step}.mp3" / ".glb"
OutputFilename(hash_hex, step, kind) == StepFile(hash_hex, step, kind)

\* fault: a result is attributed to the step at its position among all
\* steps, as if no step had been reused
RECURSIVE RecordByPosition(_, _, _, _, _, _, _)
RecordByPosition(kind, tasks, results, i, h, hash_hex, led) ==
    IF i > Len(tasks) THEN led
    ELSE IF results[i] = "ok"
    THEN RecordByPosition(kind, tasks, results, i + 1, h, hash_hex,
             IF kind = "mp3"
             THEN update_mp3_filename(led, h, i - 1, StepFile(hash_hex, tasks[i].step, "mp3"))
             ELSE update_glb_filename(led, h, i - 1, StepFile(hash_hex, tasks[i].step, "glb")))
    ELSE RecordByPosition(kind, tasks, results, i + 1, h, hash_hex, led)

\* for (step, _), result in zip(tasks, results): the ledger after the
\* results from position i on have been recorded
RECURSIVE RecordResults(_, _, _, _, _, _, _)
RecordResults(kind, tasks, results, i, h, hash_hex, led) ==
    IF i > Len(tasks) THEN led
    ELSE IF results[i] = "ok"
    THEN RecordResults(kind, tasks, results, i + 1, h, hash_hex,
             IF kind = "mp3"
             THEN update_mp3_filename(led, h, tasks[i].step, OutputFilename(hash_hex, tasks[i].step, "mp3"))
             ELSE update_glb_filename(led, h, tasks[i].step, OutputFilename(hash_hex, tasks[i].step, "glb")))
    ELSE RecordResults(kind, tasks, results, i + 1, h, hash_hex, led)

\* fault: every result is counted as generated
CountAll(results) == Len(results)
\* generated_count
Generated(results) == Cardinality({i \in 1..Len(results) : results[i] = "ok"})

\* fault: the steps reused are left out of the count
GeneratedOnly(generated_count, skipped_count) == generated_count
\* total_count = generated_count + skipped_count
TotalCount(generated_count, skipped_count) == generated_count + skipped_count

\* ------------------------------------------------------------------ state
VARIABLES
    files,     \* the content store: file name -> bytes
    ledger,    \* the instructions table: <<hash, step>> -> row
    committed, \* the part of it that has been committed to the database file
    pl,        \* the upload-and-process request in flight (process_pdf_pipeline)
    acc,       \* the audio request in flight (get_mp3)
    last,      \* the latest response sent to a caller
    hist,      \* per <<hash, kind>>: the latest completed batch (the steps it found and
               \* those it reused or derived), if no file was removed since it began
    nrun,      \* uploads so far (each extraction has file names of its own)
    ndel       \* files removed so far

vars == <<files, ledger, committed, pl, acc, last, hist, nrun, ndel>>

Digests == {SHA256(PdfBytes(c)) : c \in Contents}
UnknownKey == [i \in 1..PrefixLen |-> 15]
RequestKeys == {HashHex(h) : h \in Digests} \cup {UnknownKey}
RequestSteps == 0..2

NoBatch ==
    [pc |-> "off", tasks |-> << >>, reused |-> << >>, count |-> NullNum,
     second |-> FALSE, prev_ok |-> {}, dirty |-> FALSE, first |-> 0]
IdlePipeline ==
    [pc |-> "idle", run |-> 0, pdf_filename |-> PdfFile,
     generate_tts |-> FALSE, generate_3d |-> FALSE,
     image_filenames |-> << >>, image_positions |-> << >>, matches |-> << >>,
     steps_processed |-> 0, pdf_hash |-> EmptyHash, stored |-> "", classify_calls |-> 0, responded |-> FALSE,
     batch |-> [k \in Kinds |-> NoBatch]]
IdleAccessor == [pc |-> "idle", hash |-> << >>, step |-> 0, row |-> << >>, text |-> << >>, pre |-> ""]
NoHistory == [ran |-> FALSE, ok |-> {}, steps |-> {}]
Response(op, status, pre) ==
    [op |-> op, status |-> status, pre |-> pre, derived |-> "",
     tts_files_generated |-> NullNum, models_generated |-> NullNum]

Init ==
    /\ files = << >>
    /\ ledger = << >>
    /\ committed = << >>
    /\ pl = IdlePipeline
    /\ acc = IdleAccessor
    /\ last = Response("none", 0, "")
    /\ hist = [x \in Digests \X Kinds |-> NoHistory]
    /\ nrun = 0
    /\ ndel = 0

\* ------------------------------------------------------- upload, pipeline
\* The files extract_pdf_content leaves in the store for document bytes c.
RECURSIVE WriteImages(_, _, _, _)
WriteImages(fs, run, c, i) ==
    IF i >= NumImages(c) THEN fs
    ELSE WriteImages(WriteFile(fs, SourceImage(run, i, ImageExt(c, i)), ImageBytes(c, i)), run, c, i + 1)
Extracted(fs, run, c) == WriteFile(WriteImages(fs, run, c, 0), ManualFile(run), TextBytes(<<"m">>))

\* upload_and_process up to the classifier call of process_pdf_pipeline:
\* the upload is saved, its images and text are extracted, and
\* process_manual_images (a blocking call) is entered.
UploadNamed(c, pdf_filename, tts, g3d) ==
    /\ pl.pc = "idle"
    /\ nrun < MaxRuns
    /\ nrun' = nrun + 1
    /\ files' = Extracted(WriteFile(files, pdf_filename, PdfBytes(c)), nrun + 1, c)
    /\ pl' = [IdlePipeline EXCEPT
                 !.pc = "classifying", !.run = nrun + 1,
                 !.pdf_filename = pdf_filename,
                 !.generate_tts = tts, !.generate_3d = g3d,
                 !.image_filenames = ExtractedImages(nrun + 1, c),
                 !.image_positions = ExtractedPositions(c),
                 !.classify_calls = 1]
    /\ UNCHANGED <<ledger, committed, acc, last, hist, ndel>>

\* an upload under the filename every run of Spec uses
UploadAndProcess(c, tts, g3d) == UploadNamed(c, PdfFile, tts, g3d)

\* process_manual_images finds no GEMINI_API_KEY and raises ValueError: the
\* request ends in a 500.  extract_pdf_content has run before it.
MissingApiKey ==
    /\ pl.pc = "classifying"
    /\ pl' = IdlePipeline
    /\ last' = Response("upload", 500, "credentials")
    /\ UNCHANGED <<files, ledger, committed, acc, hist, nrun, ndel>>

\* process_manual_images raises for another reason (a reply that is not
\* JSON, a file it needs is gone): the request ends in a 500.
ClassifyRaises ==
    /\ pl.pc = "classifying"
    /\ pl' = IdlePipeline
    /\ last' = Response("upload", 500, "classify")
    /\ UNCHANGED <<files, ledger, committed, acc, hist, nrun, ndel>>

Scheduled(on) == IF on THEN [NoBatch EXCEPT !.pc = "ready"] ELSE NoBatch

\* process_pdf_pipeline from the classifier's reply to its first await:
\* the hash is computed, the results are stored, and the batches the flags
\* ask for are handed to asyncio.gather.
ClassifyReturns(matches) ==
    /\ pl.pc = "classifying"
    /\ LET pdf_hash == calculate_pdf_hash(files, pl.pdf_filename)
           r == store_gemini_results(
                    [pdf_hash |-> pdf_hash, pdf_filename |-> pl.pdf_filename,
                     image_filenames |-> pl.image_filenames, matches |-> matches,
                     image_positions |-> pl.image_positions],
                    ledger, files)
       IN /\ ledger' = r.ledger
          /\ committed' = IF r.outcome = "stored" THEN r.ledger ELSE committed
          /\ files' = r.files
          /\ IF r.outcome = "raised"
             THEN /\ pl' = IdlePipeline
                  /\ last' = Response("upload", 500, "store")
             ELSE IF ~pl.generate_tts /\ ~pl.generate_3d
             THEN /\ pl' = IdlePipeline
                  /\ last' = Response("upload", 200, r.outcome)
             ELSE /\ pl' = [pl EXCEPT !.pc = "deriving",
                                      !.matches = IF r.outcome = "stored" THEN matches ELSE << >>,
                                      !.steps_processed = Len(Instructional(matches)),
                                      !.pdf_hash = pdf_hash, !.stored = r.outcome,
                                      !.batch = [k \in Kinds |->
                                          Scheduled(IF k = "mp3" THEN pl.generate_tts
                                                    ELSE pl.generate_3d)]]
                  /\ UNCHANGED last
    /\ UNCHANGED <<acc, hist, nrun, ndel>>

Active(b) == b.pc \in {"ready", "waiting"}
\* The event loop can run another callback: process_manual_images is not
\* blocking it, and it is not between the first steps of the two batches,
\* which gather queued one behind the other.
LoopFree ==
    /\ pl.pc # "classifying"
    /\ ~(pl.pc = "deriving" /\ pl.batch["mp3"].pc # "ready" /\ pl.batch["glb"].pc = "ready")
\* the request is answered and no batch of it is still running
Retired(p) ==
    IF p.responded /\ \A k \in Kinds : ~Active(p.batch[k]) THEN IdlePipeline ELSE p

History(h, kind) == IF <<h, kind>> \in DOMAIN hist THEN hist[<<h, kind>>] ELSE NoHistory
Remember(h, kind, v) == [x \in DOMAIN hist |-> IF x = <<h, kind>> THEN v ELSE hist[x]]

\* ------------------------------------------------------- narration batch
\* generate_tts_files up to its await: the rows are enumerated, existing
\* outputs are recorded as reused, a task is created for every other step.
TtsPrepare ==
    /\ pl.pc = "deriving"
    /\ pl.batch["mp3"].pc = "ready"
    /\ LET h == pl.pdf_hash
           r == TtsPrepareLoop(get_instructions_by_hash(ledger, h), 1, h, HashHex(h),
                               ledger, files, NoTasks)
           prev == History(h, "mp3")
           finished == ~r.raised /\ r.tasks = << >>
           b == [pl.batch["mp3"] EXCEPT
                    !.pc = IF r.raised THEN "raised" ELSE IF finished THEN "done" ELSE "waiting",
                    !.tasks = r.tasks, !.reused = r.reused,
                    !.count = IF finished THEN TotalCount(0, Len(r.reused)) ELSE NullNum,
                    !.second = prev.ran /\ prev.steps = StepsOf(ledger, h), !.prev_ok = prev.ok]
       IN /\ ledger' = r.ledger
          /\ committed' = IF r.reused # << >> THEN r.ledger ELSE committed
          /\ pl' = Retired([pl EXCEPT !.batch["mp3"] = b])
          /\ hist' = Remember(h, "mp3",
                         IF finished
                         THEN [ran |-> TRUE, ok |-> {r.reused[i] : i \in 1..Len(r.reused)},
                               steps |-> StepsOf(ledger, h)]
                         ELSE NoHistory)
    /\ UNCHANGED <<files, acc, last, nrun, ndel>>

\* One tts call of the batch ends: the audio is written and its name
\* returned ("ok"), or the call raises ("exc").
TtsTaskReturns(i, result) ==
    /\ pl.pc = "deriving"
    /\ LoopFree
    /\ pl.batch["mp3"].pc = "waiting"
    /\ i \in 1..Len(pl.batch["mp3"].tasks)
    /\ pl.batch["mp3"].tasks[i].result = "pending"
    /\ LET t == pl.batch["mp3"].tasks[i]
       IN files' = IF result = "ok"
                   THEN WriteFile(files, StepFile(HashHex(pl.pdf_hash), t.step, "mp3"), AudioBytes(t.text))
                   ELSE files
    /\ pl' = [pl EXCEPT !.batch["mp3"].tasks[i].result = result,
                        !.batch["mp3"].first = IF @ = 0 THEN i ELSE @]
    /\ UNCHANGED <<ledger, committed, acc, last, hist, nrun, ndel>>

Settled(b) == \A i \in 1..Len(b.tasks) : b.tasks[i].result # "pending"
OkSteps(b) == {b.tasks[i].step : i \in {j \in 1..Len(b.tasks) : b.tasks[j].result = "ok"}}
ReusedSteps(b) == {b.reused[i] : i \in 1..Len(b.reused)}
TaskSteps(b) == {b.tasks[i].step : i \in 1..Len(b.tasks)}

\* generate_tts_files after its gather: every result is paired with the
\* step of its task and the ledger is updated for the names returned.
TtsCollect ==
    /\ pl.pc = "deriving"
    /\ pl.batch["mp3"].pc = "waiting"
    /\ Settled(pl.batch["mp3"])
    /\ LET b == pl.batch["mp3"]
           h == pl.pdf_hash
           results == Gathered(b.tasks)
       IN /\ ledger' = RecordResults("mp3", b.tasks, results, 1, h, HashHex(h), ledger)
          /\ committed' = IF \E i \in 1..Len(results) : results[i] = "ok" THEN ledger' ELSE committed
          /\ pl' = Retired([pl EXCEPT !.batch["mp3"].pc = "done",
                                      !.batch["mp3"].count = TotalCount(Generated(results), Len(b.reused))])
          /\ hist' = Remember(h, "mp3",
                         IF b.dirty THEN NoHistory
                         ELSE [ran |-> TRUE, ok |-> ReusedSteps(b) \cup OkSteps(b),
                               steps |-> StepsOf(ledger, h)])
    /\ UNCHANGED <<files, acc, last, nrun, ndel>>

\* -------------------------------------------------------- 3D model batch
\* generate_3d_models up to its await.  It is scheduled after the narration
\* batch and so starts after it.
GlbPrepare ==
    /\ pl.pc = "deriving"
    /\ pl.batch["glb"].pc = "ready"
    /\ pl.batch["mp3"].pc # "ready"
    /\ LET h == pl.pdf_hash
           r == GlbPrepareLoop(get_instructions_with_images(ledger, h), 1, h, HashHex(h),
                               ledger, files, NoTasks)
           prev == History(h, "glb")
           finished == r.tasks = << >>
           b == [pl.batch["glb"] EXCEPT
                    !.pc = IF finished THEN "done" ELSE "waiting",
                    !.tasks = r.tasks, !.reused = r.reused,
                    !.count = IF finished THEN TotalCount(0, Len(r.reused)) ELSE NullNum,
                    !.second = prev.ran /\ prev.steps = StepsOf(ledger, h), !.prev_ok = prev.ok]
       IN /\ ledger' = r.ledger
          /\ committed' = IF r.reused # << >> THEN r.ledger ELSE committed
          /\ pl' = Retired([pl EXCEPT !.batch["glb"] = b])
          /\ hist' = Remember(h, "glb",
                         IF finished
                         THEN [ran |-> TRUE, ok |-> {r.reused[i] : i \in 1..Len(r.reused)},
                               steps |-> StepsOf(ledger, h)]
                         ELSE NoHistory)
    /\ UNCHANGED <<files, acc, last, nrun, ndel>>

\* One image_to_model call of the batch ends: the model is saved and its
\* name returned ("ok"), no model was produced and None is returned
\* ("none"), or the call raises ("exc"); an image that could not be read
\* can only raise.
GlbTaskReturns(i, result) ==
    /\ pl.pc = "deriving"
    /\ pl.batch["glb"].pc = "waiting"
    /\ i \in 1..Len(pl.batch["glb"].tasks)
    /\ pl.batch["glb"].tasks[i].result = "pending"
    /\ result # "exc" => pl.batch["glb"].tasks[i].bytes # NoBytes
    /\ LET t == pl.batch["glb"].tasks[i]
       IN files' = IF result = "ok"
                   THEN WriteFile(files, StepFile(HashHex(pl.pdf_hash), t.step, "glb"), ModelBytes(t.bytes))
                   ELSE files
    /\ pl' = [pl EXCEPT !.batch["glb"].tasks[i].result = result,
                        !.batch["glb"].first = IF @ = 0 THEN i ELSE @]
    /\ UNCHANGED <<ledger, committed, acc, last, hist, nrun, ndel>>

\* generate_3d_models after its gather.
GlbCollect ==
    /\ pl.pc = "deriving"
    /\ pl.batch["glb"].pc = "waiting"
    /\ Settled(pl.batch["glb"])
    /\ LET b == pl.batch["glb"]
           h == pl.pdf_hash
           results == Gathered(b.tasks)
       IN /\ ledger' = RecordResults("glb", b.tasks, results, 1, h, HashHex(h), ledger)
          /\ committed' = IF \E i \in 1..Len(results) : results[i] = "ok" THEN ledger' ELSE committed
          /\ pl' = Retired([pl EXCEPT !.batch["glb"].pc = "done",
                                      !.batch["glb"].count = TotalCount(Generated(results), Len(b.reused))])
          /\ hist' = Remember(h, "glb",
                         IF b.dirty THEN NoHistory
                         ELSE [ran |-> TRUE, ok |-> ReusedSteps(b) \cup OkSteps(b),
                               steps |-> StepsOf(ledger, h)])
    /\ UNCHANGED <<files, acc, last, nrun, ndel>>

\* fault: the two counts are taken from the results in the wrong order
PipelineResultSwapped(generate_tts, generate_3d, results) ==
    [tts_count |-> IF generate_tts /\ generate_3d THEN results[2]
                   ELSE IF generate_tts THEN results[1] ELSE NullNum,
     model_count |-> IF generate_tts /\ generate_3d THEN results[1]
                     ELSE IF generate_3d THEN results[1] ELSE NullNum]
\* tts_count and model_count of process_pdf_pipeline: None, unless the flag
\* is on, and then the result of gather at the position of the batch
PipelineResult(generate_tts, generate_3d, results) ==
    [tts_count |-> IF generate_tts THEN results[1] ELSE NullNum,
     model_count |-> IF generate_tts /\ generate_3d THEN results[2]
                     ELSE IF generate_3d THEN results[1] ELSE NullNum]
\* what gather returns to process_pdf_pipeline: the counts of the batches
\* that were asked for, narration first
BatchCounts(p) ==
    (IF p.generate_tts THEN <<p.batch["mp3"].count>> ELSE << >>)
        \o (IF p.generate_3d THEN <<p.batch["glb"].count>> ELSE << >>)

\* process_pdf_pipeline after its gather (no return_exceptions): a batch
\* that raised ends the request in a 500 at once, the other batch running
\* on; else the request is answered when the batches asked for are done.
PipelineReturns ==
    /\ pl.pc = "deriving"
    /\ LoopFree
    /\ ~pl.responded
    /\ LET raised == \E k \in Kinds : pl.batch[k].pc = "raised"
       IN /\ raised \/ \A k \in Kinds : ~Active(pl.batch[k])
          /\ last' = IF raised THEN Response("upload", 500, pl.stored)
                     ELSE LET r == PipelineResult(pl.generate_tts, pl.generate_3d, BatchCounts(pl))
                          IN [Response("upload", 200, pl.stored) EXCEPT
                                 !.tts_files_generated = r.tts_count,
                                 !.models_generated = r.model_count]
    /\ pl' = Retired([pl EXCEPT !.responded = TRUE])
    /\ UNCHANGED <<files, ledger, committed, acc, hist, nrun, ndel>>

\* ---------------------------------------------------------------- accessor
NotFound == 404
\* what the request finds: no row, a row without the reference, a reference
\* to a file that is not in the store, or the file
Found(fs, rows, name) ==
    IF rows = {} THEN "norow"
    ELSE IF name = NoFile THEN "unset"
    ELSE IF name \notin DOMAIN fs THEN "nofile"
    ELSE "present"
Absent == {"norow", "unset", "nofile"}

\* get_image: 404 unless the row names an image that is in the store
get_image(fs, name) == IF name = NoFile THEN NotFound ELSE IF ~PathExists(fs, name) THEN NotFound ELSE 200
\* fault: the model is served without looking for it in the store
get_glb_unchecked(fs, name) == IF name = NoFile THEN NotFound ELSE 200
\* get_glb: 404 unless the row names a model that is in the store
get_glb(fs, name) == IF name = NoFile THEN NotFound ELSE IF ~PathExists(fs, name) THEN NotFound ELSE 200
\* get_instruction: 404 unless the row names a text file that is in the store
get_instruction(fs, name) == IF name = NoFile THEN NotFound ELSE IF ~PathExists(fs, name) THEN NotFound ELSE 200
\* get_pdf: 404 unless the row names a document that is in the store
get_pdf(fs, name) == IF name = NoFile THEN NotFound ELSE IF ~PathExists(fs, name) THEN NotFound ELSE 200


GetImage(hash, step) ==
    /\ LoopFree
    /\ LET rows == MatchingRows(ledger, hash, step)
       IN IF rows = {}
          THEN last' = Response("get_image", NotFound, "norow")
          ELSE \E k \in rows :
                 last' = Response("get_image", get_image(files, ledger[k].image_filename),
                                  Found(files, rows, ledger[k].image_filename))
    /\ UNCHANGED <<files, ledger, committed, pl, acc, hist, nrun, ndel>>

GetGlb(hash, step) ==
    /\ LoopFree
    /\ LET rows == MatchingRows(ledger, hash, step)
       IN IF rows = {}
          THEN last' = Response("get_glb", NotFound, "norow")
          ELSE \E k \in rows :
                 last' = Response("get_glb", get_glb(files, ledger[k].glb_filename),
                                  Found(files, rows, ledger[k].glb_filename))
    /\ UNCHANGED <<files, ledger, committed, pl, acc, hist, nrun, ndel>>

GetInstruction(hash, step) ==
    /\ LoopFree
    /\ LET rows == MatchingRows(ledger, hash, step)
       IN IF rows = {}
          THEN last' = Response("get_instruction", NotFound, "norow")
          ELSE \E k \in rows :
                 last' = Response("get_instruction", get_instruction(files, ledger[k].instruction_filename),
                                  Found(files, rows, ledger[k].instruction_filename))
    /\ UNCHANGED <<files, ledger, committed, pl, acc, hist, nrun, ndel>>

GetPdf(hash) ==
    /\ LoopFree
    /\ LET rows == MatchingDocs(ledger, hash)
       IN IF rows = {}
          THEN last' = Response("get_pdf", NotFound, "norow")
          ELSE \E k \in rows :
                 last' = Response("get_pdf", get_pdf(files, ledger[k].pdf_filename),
                                  Found(files, rows, ledger[k].pdf_filename))
    /\ UNCHANGED <<files, ledger, committed, pl, acc, hist, nrun, ndel>>

\* fault: the audio is regenerated on every request
AudioNeverOnDisk(fs, mp3_filename) == FALSE
\* not (not mp3_filename or not mp3_path or not mp3_path.exists())
AudioOnDisk(fs, mp3_filename) == mp3_filename # NoFile /\ PathExists(fs, mp3_filename)

\* get_mp3 up to its await: the audio is served when the row names a file
\* that is in the store; else the instruction text is read and one tts call
\* is made (regenerate_single_tts).
GetMp3(hash, step) ==
    /\ LoopFree
    /\ acc.pc = "idle"
    /\ LET rows == MatchingRows(ledger, hash, step)
       IN IF rows = {}
          THEN /\ last' = Response("get_mp3", NotFound, "norow")
               /\ UNCHANGED acc
          ELSE \E k \in rows :
                 LET mp3_filename == ledger[k].mp3_filename
                     instruction_filename == ledger[k].instruction_filename
                 IN IF AudioOnDisk(files, mp3_filename)
                    THEN /\ last' = Response("get_mp3", 200, "present")
                         /\ UNCHANGED acc
                    ELSE IF instruction_filename = NoFile \/ ~PathExists(files, instruction_filename)
                    THEN /\ last' = Response("get_mp3", NotFound, "notext")
                         /\ UNCHANGED acc
                    ELSE /\ acc' = [pc |-> "calling", hash |-> hash, step |-> step, row |-> k,
                                    text |-> DescriptionOf(files[instruction_filename].text),
                                    pre |-> IF mp3_filename = NoFile THEN "null" ELSE "gone"]
                         /\ UNCHANGED last
    /\ UNCHANGED <<files, ledger, committed, pl, hist, nrun, ndel>>

\* fault: the expected name is recorded whatever the call did
RecordedAnyway(led, key, hash_hex, step, result) ==
    [led EXCEPT ![key].mp3_filename = StepFile(hash_hex, step, "mp3")]
\* The ledger after get_mp3's await: a call that raised skips the update,
\* and the update of a returned name raises before it writes.
Regenerated(led, key, hash_hex, step, result) == led

\* get_mp3 after its await.  The tts call wrote the audio and returned its
\* name ("ok") or raised ("exc").  The ledger update that follows a
\* returned name is a call of update_mp3_filename_by_hash_hex, a name that
\* database.py does not define: the call raises, and the handler answers
\* 500 as for any other exception.
GetMp3Returns(result) ==
    /\ acc.pc = "calling"
    /\ LoopFree
    /\ files' = IF result = "ok"
                THEN WriteFile(files, StepFile(acc.hash, acc.step, "mp3"), AudioBytes(acc.text))
                ELSE files
    /\ last' = [Response("get_mp3", 500, acc.pre) EXCEPT !.derived = result]
    /\ acc' = IdleAccessor
    /\ ledger' = Regenerated(ledger, acc.row, acc.hash, acc.step, result)
    /\ UNCHANGED <<committed, pl, hist, nrun, ndel>>

\* ------------------------------------------------------------ environment
\* A file is removed from the store by something other than the server.
DeleteFile(name) ==
    /\ ndel < MaxDeletes
    /\ name \in DOMAIN files
    /\ ndel' = ndel + 1
    /\ files' = RemoveFile(files, name)
    /\ hist' = [x \in DOMAIN hist |-> NoHistory]
    /\ pl' = [pl EXCEPT !.batch = [k \in Kinds |->
                 IF Active(pl.batch[k]) THEN [pl.batch[k] EXCEPT !.dirty = TRUE] ELSE pl.batch[k]]]
    /\ UNCHANGED <<ledger, committed, acc, last, nrun>>

\* ---------------------------------------------------------- specification
\* The files something may still read: the uploaded document, the step
\* files, and the images of the extraction in progress.
Deletable ==
    {x \in DOMAIN files : x.kind \in {"pdf", "step"} \/ (x.kind = "src" /\ x.key = <<pl.run>>)}

Uploads == \E c \in Contents, tts \in BOOLEAN, g3d \in BOOLEAN : UploadAndProcess(c, tts, g3d)

\* An upload-and-process request, from the classifier's answer to its end.
Pipeline ==
    \/ MissingApiKey
    \/ ClassifyRaises
    \/ \E matches \in ClassifierResults(Len(pl.image_filenames)) : ClassifyReturns(matches)
    \/ TtsPrepare
    \/ \E i \in 1..Len(pl.batch["mp3"].tasks), result \in {"ok", "exc"} : TtsTaskReturns(i, result)
    \/ TtsCollect
    \/ GlbPrepare
    \/ \E i \in 1..Len(pl.batch["glb"].tasks), result \in {"ok", "none", "exc"} : GlbTaskReturns(i, result)
    \/ GlbCollect
    \/ PipelineReturns

\* Files are removed while no derivation batch is in flight.
Environment == pl.pc # "deriving" /\ \E name \in Deletable : DeleteFile(name)

Retrieval ==
    \/ \E hash \in RequestKeys, step \in RequestSteps : GetImage(hash, step)
    \/ \E hash \in RequestKeys, step \in RequestSteps : GetGlb(hash, step)
    \/ \E hash \in RequestKeys, step \in RequestSteps : GetInstruction(hash, step)
    \/ \E hash \in RequestKeys : GetPdf(hash)
    \/ \E hash \in RequestKeys, step \in RequestSteps : GetMp3(hash, step)
    \/ \E result \in {"ok", "exc"} : GetMp3Returns(result)

\* Ingestion and re-ingestion, with files removed from outside.
Next == Uploads \/ Pipeline \/ Environment

Spec == Init /\ [][Next]_vars

\* One upload is ingested, and requests are served once it has been answered.
NextRetrieval == (nrun = 0 /\ Uploads) \/ Pipeline \/ Environment \/ (pl.pc = "idle" /\ Retrieval)

SpecRetrieval == Init /\ [][NextRetrieval]_vars

\* One upload, with the event loop running every callback that is ready.
\* The external calls are not fair: a call may never return.
NextLoop == (nrun = 0 /\ Uploads) \/ Pipeline
LoopRuns ==
    /\ WF_vars(TtsPrepare) /\ WF_vars(TtsCollect)
    /\ WF_vars(GlbPrepare) /\ WF_vars(GlbCollect)
    /\ WF_vars(PipelineReturns)
SpecLoop == Init /\ [][NextLoop]_vars /\ LoopRuns

\* Ingestion without narration, requests for the audio of the stored steps,
\* and re-ingestion; no file is removed.
AudioRequests ==
    \/ \E k \in DOMAIN ledger : GetMp3(HashHex(k[1]), k[2])
    \/ \E result \in {"ok", "exc"} : GetMp3Returns(result)
NextReuse ==
    \/ nrun = 0 /\ \E c \in Contents, g3d \in BOOLEAN : UploadAndProcess(c, FALSE, g3d)
    \/ nrun = 1 /\ Uploads
    \/ Pipeline
    \/ pl.pc = "idle" /\ nrun = 1 /\ AudioRequests
SpecReuse == Init /\ [][NextReuse]_vars

\* One ingestion of a reply with a single instructional entry whose title
\* and description are any texts of letters and line feeds, and requests
\* for the audio of the stored step.
Texts == UNION {[1..n -> {"a", LF}] : n \in 0..MaxTextLen}
TextReplies ==
    {<<[Judgment(0, TRUE) EXCEPT !.instruction_title = title,
                                 !.instruction_description = description]>> :
        title \in Texts, description \in Texts}
NextText ==
    \/ nrun = 0 /\ Uploads
    \/ \E matches \in TextReplies : ClassifyReturns(matches)
    \/ TtsPrepare
    \/ \E i \in 1..Len(pl.batch["mp3"].tasks), result \in {"ok", "exc"} : TtsTaskReturns(i, result)
    \/ TtsCollect
    \/ GlbPrepare
    \/ \E i \in 1..Len(pl.batch["glb"].tasks), result \in {"ok", "none", "exc"} : GlbTaskReturns(i, result)
    \/ GlbCollect
    \/ PipelineReturns
    \/ AudioRequests
SpecText == Init /\ [][NextText]_vars

\* One ingestion, with requests for the audio of stored steps served
\* whenever the event loop is free, also while the batches wait.
NextConcurrent == (nrun = 0 /\ Uploads) \/ Pipeline \/ AudioRequests
SpecConcurrent == Init /\ [][NextConcurrent]_vars

\* the keys a client may type: the key of each document, a shorter
\* beginning of one, a key with a pattern character, and an unknown key
TypedKeys ==
    {HashHex(SHA256(PdfBytes(c))) : c \in 1..(NumContents + 1)}
        \cup {<<1>>, <<AnyChar, 0>>, UnknownKey}
KeyRequests ==
    \/ \E hash \in TypedKeys, step \in 0..1 : GetImage(hash, step)
    \/ \E hash \in TypedKeys, step \in 0..1 : GetInstruction(hash, step)
    \/ \E hash \in TypedKeys : GetPdf(hash)

\* Two documents stored without derivation, and retrievals by typed keys.
NextKeys ==
    \/ \E c \in 1..(NumContents + 1) : UploadNamed(c, PdfNamed(c - 1), FALSE, FALSE)
    \/ \E matches \in ClassifierResults(Len(pl.image_filenames)) : ClassifyReturns(matches)
    \/ KeyRequests
SpecKeys == Init /\ [][NextKeys]_vars

\* ------------------------------------------------ command-line pipeline
\* main.py runs in a process of its own: what its connection has not
\* committed when the process ends is gone.
\* The loop of main.generate_tts_files over the rows, from row i on: a task
\* for every row.  A missing instruction file raises, and so does the
\* unpacking "title, description = parts" of a text without a blank line.
RECURSIVE CliTtsLoop(_, _, _, _)
CliTtsLoop(rows, i, fs, tasks) ==
    IF i > Len(rows) THEN [tasks |-> tasks, raised |-> FALSE]
    ELSE LET step == rows[i][1]
             instruction_filename == rows[i][2]
         IN IF ~PathExists(fs, instruction_filename)
               \/ FirstBlankLine(Strip(fs[instruction_filename].text)) = 0
            THEN [tasks |-> tasks, raised |-> TRUE]
            ELSE CliTtsLoop(rows, i + 1, fs,
                     Append(tasks, NewTask(step, DescriptionOf(fs[instruction_filename].text),
                                           NoBytes, FALSE)))

\* The loop of main.generate_3d_models: a task for every row with an image.
CliGlbLoop(rows, fs) ==
    [i \in 1..Len(rows) |-> NewTask(rows[i][1], << >>, ReadFile(fs, rows[i][2]), FALSE)]

\* main() up to its gather, for the document c in volume/ and the
\* classifier's reply: extraction, classification, hash and store run
\* without a suspension point.  An error in store ends the process.
CliMain(c, matches, tts, g3d) ==
    /\ pl.pc = "idle"
    /\ nrun < MaxRuns
    /\ nrun' = nrun + 1
    /\ LET fs == Extracted(WriteFile(files, PdfFile, PdfBytes(c)), nrun + 1, c)
           pdf_hash == calculate_pdf_hash(fs, PdfFile)
           r == store_gemini_results(
                    [pdf_hash |-> pdf_hash, pdf_filename |-> PdfFile,
                     image_filenames |-> ExtractedImages(nrun + 1, c), matches |-> matches,
                     image_positions |-> << >>],
                    ledger, fs)
       IN /\ files' = r.files
          /\ IF r.outcome = "raised"
             THEN /\ ledger' = committed
                  /\ UNCHANGED committed
                  /\ pl' = IdlePipeline
                  /\ last' = Response("cli", 1, "store")
             ELSE /\ ledger' = r.ledger
                  /\ committed' = IF r.outcome = "stored" THEN r.ledger ELSE committed
                  /\ IF ~tts /\ ~g3d
                     THEN /\ pl' = IdlePipeline
                          /\ last' = Response("cli", 0, r.outcome)
                     ELSE /\ pl' = [IdlePipeline EXCEPT
                                       !.pc = "cli", !.run = nrun + 1,
                                       !.generate_tts = tts, !.generate_3d = g3d,
                                       !.pdf_hash = pdf_hash, !.stored = r.outcome,
                                       !.batch = [k \in Kinds |->
                                           Scheduled(IF k = "mp3" THEN tts ELSE g3d)]]
                          /\ UNCHANGED last
    /\ UNCHANGED <<acc, hist, ndel>>

\* main.generate_tts_files up to its gather.  An error raised by the loop
\* goes through main's gather and ends the process.
CliTtsPrepare ==
    /\ pl.pc = "cli"
    /\ pl.batch["mp3"].pc = "ready"
    /\ LET r == CliTtsLoop(get_instructions_by_hash(ledger, pl.pdf_hash), 1, files, << >>)
       IN IF r.raised
          THEN /\ pl' = IdlePipeline
               /\ ledger' = committed
               /\ last' = Response("cli", 1, "narration")
          ELSE /\ pl' = [pl EXCEPT !.batch["mp3"].pc = "waiting", !.batch["mp3"].tasks = r.tasks]
               /\ UNCHANGED <<ledger, last>>
    /\ UNCHANGED <<files, committed, acc, hist, nrun, ndel>>

\* main.generate_3d_models up to its gather; it starts after the narration
\* batch, which main's gather scheduled before it.
CliGlbPrepare ==
    /\ pl.pc = "cli"
    /\ pl.batch["glb"].pc = "ready"
    /\ pl.batch["mp3"].pc # "ready"
    /\ pl' = [pl EXCEPT !.batch["glb"].pc = "waiting",
                        !.batch["glb"].tasks =
                            CliGlbLoop(get_instructions_with_images(ledger, pl.pdf_hash), files)]
    /\ UNCHANGED <<files, ledger, committed, acc, last, hist, nrun, ndel>>

\* One call of tts or image_to_model made by main.py ends.
CliTaskReturns(kind, i, result) ==
    /\ pl.pc = "cli"
    /\ pl.batch[kind].pc = "waiting"
    /\ i \in 1..Len(pl.batch[kind].tasks)
    /\ pl.batch[kind].tasks[i].result = "pending"
    /\ kind = "mp3" => result # "none"
    /\ (kind = "glb" /\ result # "exc") => pl.batch[kind].tasks[i].bytes # NoBytes
    /\ LET t == pl.batch[kind].tasks[i]
       IN files' = IF result = "ok"
                   THEN WriteFile(files, OutputFilename(HashHex(pl.pdf_hash), t.step, kind),
                                  IF kind = "mp3" THEN AudioBytes(t.text) ELSE ModelBytes(t.bytes))
                   ELSE files
    /\ pl' = [pl EXCEPT !.batch[kind].tasks[i].result = result]
    /\ UNCHANGED <<ledger, committed, acc, last, hist, nrun, ndel>>

\* main.generate_tts_files / generate_3d_models after the gather: the ledger
\* is updated for every name returned.
CliCollect(kind) ==
    /\ pl.pc = "cli"
    /\ pl.batch[kind].pc = "waiting"
    /\ Settled(pl.batch[kind])
    /\ LET b == pl.batch[kind]
           h == pl.pdf_hash
           results == Gathered(b.tasks)
       IN /\ ledger' = RecordResults(kind, b.tasks, results, 1, h, HashHex(h), ledger)
          /\ committed' = IF \E i \in 1..Len(results) : results[i] = "ok" THEN ledger' ELSE committed
    /\ pl' = [pl EXCEPT !.batch[kind].pc = "done"]
    /\ UNCHANGED <<files, acc, last, hist, nrun, ndel>>

\* main() after its gather: "Pipeline complete!", the process ends.
CliExit ==
    /\ pl.pc = "cli"
    /\ \A k \in Kinds : ~Active(pl.batch[k])
    /\ pl' = IdlePipeline
    /\ ledger' = committed
    /\ last' = Response("cli", 0, pl.stored)
    /\ UNCHANGED <<files, committed, acc, hist, nrun, ndel>>

CliRuns ==
    \E c \in Contents, tts \in BOOLEAN, g3d \in BOOLEAN :
        \E matches \in ClassifierResults(NumImages(c)) : CliMain(c, matches, tts, g3d)
CliBatches ==
    \/ CliTtsPrepare
    \/ CliGlbPrepare
    \/ \E kind \in Kinds : \E i \in 1..Len(pl.batch[kind].tasks), result \in {"ok", "none", "exc"} : CliTaskReturns(kind, i, result)
    \/ \E kind \in Kinds : CliCollect(kind)
    \/ CliExit
NextCli == CliRuns \/ CliBatches
SpecCli == Init /\ [][NextCli]_vars

\* Documents are uploaded under filenames of the client's choice and stored
\* without any derivation (generate_tts and generate_3d both false).
NamedUploads ==
    \E c \in 1..(NumContents + 1), n \in 0..(NumNames - 1) :
        UploadNamed(c, PdfNamed(n), FALSE, FALSE)
NextNames ==
    \/ NamedUploads
    \/ MissingApiKey
    \/ ClassifyRaises
    \/ \E matches \in ClassifierResults(Len(pl.image_filenames)) : ClassifyReturns(matches)
SpecNames == Init /\ [][NextNames]_vars

\* fault: every filename is taken for a PDF
AnyFilename(filename) == TRUE
\* file.filename.endswith('.pdf')
EndsWithPdf(filename) == filename.ext = "pdf"
\* a filename a client may choose that does not end in .pdf
TextNamed(n) == [PdfFile EXCEPT !.n = n, !.ext = "txt"]

\* upload_and_process from its first line: a filename that does not end in
\* .pdf is answered 400 before the save; any other upload is saved and
\* processed.
Upload(c, filename, tts, g3d) ==
    IF ~EndsWithPdf(filename)
    THEN /\ pl.pc = "idle"
         /\ last' = Response("upload", 400, "filename")
         /\ UNCHANGED <<files, ledger, committed, pl, acc, hist, nrun, ndel>>
    ELSE UploadNamed(c, filename, tts, g3d)

\* Uploads under filenames that end in .pdf and filenames that do not.
NextUploads ==
    \/ \E c \in 1..(NumContents + 1), n \in 0..(NumNames - 1) :
           \E filename \in {PdfNamed(n), TextNamed(n)} : Upload(c, filename, FALSE, FALSE)
    \/ MissingApiKey
    \/ ClassifyRaises
    \/ \E matches \in ClassifierResults(Len(pl.image_filenames)) : ClassifyReturns(matches)
SpecUploads == Init /\ [][NextUploads]_vars

\* the contents get_pdf may serve for the key hash: the file named by a
\* row that get_pdf_filename_by_hash may fetch, as it is in the store now
ServedPdf(fs, led, hash) ==
    {fs[led[k].pdf_filename] : k \in {x \in MatchingDocs(led, hash) : PathExists(fs, led[x].pdf_filename)}}

\* Uploads of several contents under several filenames, stored without
\* derivation, and requests for the stored documents.
NextDocuments ==
    \/ NamedUploads
    \/ MissingApiKey
    \/ ClassifyRaises
    \/ \E matches \in ClassifierResults(Len(pl.image_filenames)) : ClassifyReturns(matches)
    \/ \E k \in DOMAIN ledger : GetPdf(HashHex(k[1]))
SpecDocuments == Init /\ [][NextDocuments]_vars

\* ------------------------------------------------- narration collaborator
\* str.lower() on the words the service's error texts are made of
Lower(word) == IF word = "Voice" THEN "voice" ELSE word
\* fault: the error text is never inspected
NeverMentions(error_text, word) == FALSE
\* "voice" in error_text_lower, an error text being a sequence of words
Mentions(error_text, word) == \E i \in 1..Len(error_text) : Lower(error_text[i]) = word

NoReturn == [raised |-> "", message |-> "", returned |-> NoFile]
\* tts(text, pdf_hash_hex, step_number) against a service that answers with
\* reply.status and, on an error, reply.error_text; reply.api_key tells
\* whether FISH_AUDIO_API_KEY is set.  The result is the store after the
\* call with what the call raised or returned.
tts(fs, text, pdf_hash_hex, step_number, reply) ==
    LET output_filename == StepFile(pdf_hash_hex, step_number, "mp3")
    IN IF ~reply.api_key
       THEN [files |-> fs,
             out |-> [NoReturn EXCEPT !.raised = "ValueError", !.message = "key not set"]]
       ELSE IF reply.status # 200
       THEN IF Mentions(reply.error_text, "voice")
            THEN [files |-> fs,
                  out |-> [NoReturn EXCEPT !.raised = "ValueError", !.message = "Invalid voice ID"]]
            ELSE [files |-> fs,
                  out |-> [NoReturn EXCEPT !.raised = "RuntimeError", !.message = "API Error"]]
       ELSE [files |-> WriteFile(fs, output_filename, AudioBytes(text)),
             out |-> [NoReturn EXCEPT !.returned = output_filename]]

ErrorTexts == {<< >>, <<"quota", "exceeded">>, <<"unknown", "Voice">>, <<"voice", "not", "found">>}
Replies ==
    {[api_key |-> key, status |-> status, error_text |-> IF status = 200 THEN << >> ELSE error_text] :
        key \in BOOLEAN, status \in {200, 400, 500}, error_text \in ErrorTexts}

\* One call of tts from start to end; last records the call and its outcome.
TtsCall(text, pdf_hash_hex, step_number, reply) ==
    /\ LET r == tts(files, text, pdf_hash_hex, step_number, reply)
       IN /\ files' = r.files
          /\ last' = [op |-> "tts", text |-> text, pdf_hash_hex |-> pdf_hash_hex,
                      step_number |-> step_number, reply |-> reply, out |-> r.out]
    /\ UNCHANGED <<ledger, committed, pl, acc, hist, nrun, ndel>>

NextTts ==
    \E text \in {DescriptionText(0), DescriptionText(1)}, key \in Digests, step_number \in RequestSteps,
       reply \in Replies : TtsCall(text, HashHex(key), step_number, reply)
SpecTts == Init /\ [][NextTts]_vars

\* -------------------------------------------------------- 3D collaborator
\* fault: a task that produced no model is an error
image_to_model_raising(fs, image, pdf_hash_hex, step, reply) ==
    IF image = NoBytes \/ ~reply.created
       \/ reply.status # "success" \/ ~reply.downloaded \/ ~reply.has_glb
    THEN [files |-> fs, out |-> [NoReturn EXCEPT !.raised = "Exception"]]
    ELSE [files |-> WriteFile(fs, StepFile(pdf_hash_hex, step, "glb"), ModelBytes(image)),
          out |-> [NoReturn EXCEPT !.returned = StepFile(pdf_hash_hex, step, "glb")]]
\* image_to_model(image_path, pdf_hash_hex, step) for the bytes at
\* image_path (NoBytes: no such file) against a service that accepts the
\* task and reports its end (reply.created; else the client raises), ends
\* it in reply.status, lets the models be downloaded (reply.downloaded) and
\* has a GLB among them (reply.has_glb).  Downloaded files other than the
\* GLB are left out of the store.
image_to_model(fs, image, pdf_hash_hex, step, reply) ==
    LET glb_filename == StepFile(pdf_hash_hex, step, "glb")
    IN IF image = NoBytes \/ ~reply.created
       THEN [files |-> fs, out |-> [NoReturn EXCEPT !.raised = "Exception"]]
       ELSE IF reply.status # "success" THEN [files |-> fs, out |-> NoReturn]
       ELSE IF ~reply.downloaded THEN [files |-> fs, out |-> NoReturn]
       ELSE IF ~reply.has_glb THEN [files |-> fs, out |-> NoReturn]
       ELSE [files |-> WriteFile(fs, glb_filename, ModelBytes(image)),
             out |-> [NoReturn EXCEPT !.returned = glb_filename]]

ModelReplies ==
    [created : BOOLEAN, status : {"success", "failed"}, downloaded : BOOLEAN, has_glb : BOOLEAN]
\* what gather holds for a call that ended with out
ResultOf(out) == IF out.raised # "" THEN "exc" ELSE IF out.returned = NoFile THEN "none" ELSE "ok"

\* GlbTaskReturns with the service's reply spelled out: one image_to_model
\* call of the batch ends; last records the call and its outcome.
ModelCallReturns(i, reply) ==
    /\ pl.pc = "deriving"
    /\ pl.batch["glb"].pc = "waiting"
    /\ i \in 1..Len(pl.batch["glb"].tasks)
    /\ pl.batch["glb"].tasks[i].result = "pending"
    /\ LET t == pl.batch["glb"].tasks[i]
           r == image_to_model(files, t.bytes, HashHex(pl.pdf_hash), t.step, reply)
       IN /\ files' = r.files
          /\ pl' = [pl EXCEPT !.batch["glb"].tasks[i].result = ResultOf(r.out),
                              !.batch["glb"].first = IF @ = 0 THEN i ELSE @]
          /\ last' = [op |-> "image_to_model", task |-> i, step |-> t.step,
                      reply |-> reply, out |-> r.out]
    /\ UNCHANGED <<ledger, committed, acc, hist, nrun, ndel>>

\* Ingestion and re-ingestion with the 3D batch only, files removed from
\* outside between the requests.
NextModels ==
    \/ \E c \in Contents : UploadAndProcess(c, FALSE, TRUE)
    \/ \E matches \in ClassifierResults(Len(pl.image_filenames)) : ClassifyReturns(matches)
    \/ GlbPrepare
    \/ \E i \in 1..Len(pl.batch["glb"].tasks), reply \in ModelReplies : ModelCallReturns(i, reply)
    \/ GlbCollect
    \/ PipelineReturns
    \/ Environment
SpecModels == Init /\ [][NextModels]_vars

\* ----------------------------------------------------------------- claims
\* The request has stored the classifier's reply for a document that had no
\* rows, and is deriving assets for it.
Materialized == pl.pc = "deriving" /\ pl.stored = "stored"
\* the instructional entries of the stored reply, in the reply's order
Entries == Instructional(pl.matches)
PositionOf(image_index) ==
    IF image_index < Len(pl.image_positions) THEN pl.image_positions[image_index + 1] ELSE NoPosition

\* C1: after store_gemini_results has materialized a document that had no
\* rows, the steps stored for it are exactly 0..K-1, K the number of
\* instructional entries of the reply, and step i carries the position of
\* the image the i-th instructional entry names: entries that are not
\* instructional leave no row and no gap.
C1_StepsAreDense ==
    Materialized =>
        /\ StepsOf(ledger, pl.pdf_hash) = 0..(Len(Entries) - 1)
        /\ \A i \in 0..(Len(Entries) - 1) :
              /\ <<pl.pdf_hash, i>> \in DOMAIN ledger
              /\ LET position_data == PositionOf(Entries[i + 1].image_index)
                     row == ledger[<<pl.pdf_hash, i>>]
                 IN IF position_data.present
                    THEN /\ row.page_number = position_data.page_number
                         /\ row.y_percentage = position_data.y_percentage
                    ELSE row.page_number = NullNum /\ row.y_percentage = NullNum
\* a reply whose first entry is not instructional and whose second is
C1_Witness ==
    /\ Materialized
    /\ Len(pl.matches) = 2
    /\ ~pl.matches[1].is_instruction
    /\ pl.matches[2].is_instruction
    /\ StepsOf(ledger, pl.pdf_hash) = {0}

\* C2: the row of step i names the copy <hash-prefix>-<i><extension> of the
\* image at the image_index of the i-th instructional entry, and the
\* instruction file <hash-prefix>-<i>.txt, which holds that entry's title
\* and description; the copy holds the bytes of the image it was made of.
C2_StepRefersToEntry ==
    Materialized =>
        \A i \in 0..(Len(Entries) - 1) :
            /\ <<pl.pdf_hash, i>> \in DOMAIN ledger
            /\ LET match == Entries[i + 1]
                   old_image == pl.image_filenames[match.image_index + 1]
                   row == ledger[<<pl.pdf_hash, i>>]
               IN /\ row.image_filename = StepFile(HashHex(pl.pdf_hash), i, old_image.ext)
                  /\ row.instruction_filename = StepFile(HashHex(pl.pdf_hash), i, "txt")
                  /\ ReadFile(files, row.instruction_filename) =
                         TextBytes(InstructionText(match.instruction_title,
                                                   match.instruction_description))
                  /\ PathExists(files, old_image) =>
                         ReadFile(files, row.image_filename) = files[old_image]
\* step 0 is made of the second image, step 1 of the first
C2_Witness ==
    /\ Materialized
    /\ Len(Entries) = 2
    /\ Entries[1].image_index = 1
    /\ Entries[2].image_index = 0
    /\ \A i \in 1..2 : PathExists(files, pl.image_filenames[i])
    /\ StepsOf(ledger, pl.pdf_hash) = {0, 1}

\* C3: store_gemini_results called for a document that has a row already
\* inserts no row, changes no row and writes or copies no file, whatever
\* the reply it is given.
C3_StoreSkipsKnownDocument ==
    [][(/\ pl.pc = "classifying"
        /\ pl'.pc # "classifying"
        /\ RowsOf(ledger, calculate_pdf_hash(files, PdfFile)) # {})
       => (ledger' = ledger /\ files' = files)]_vars
\* a second upload of the document reached the guard, with a reply of two
\* instructional entries
C3_Witness ==
    /\ pl.pc = "deriving"
    /\ pl.stored = "skipped"
    /\ pl.steps_processed = 2
    /\ RowsOf(ledger, pl.pdf_hash) # {}

\* C4 (as stated): re-ingesting a document that has rows performs no
\* classification call.  process_pdf_pipeline calls process_manual_images
\* before it computes the hash, so the call is made.
C4_NoClassificationOnReingestion ==
    (pl.pc = "deriving" /\ pl.stored = "skipped") => pl.classify_calls = 0

\* C5: generate_tts_files and generate_3d_models create no task for a step
\* whose output file <hash-prefix>-<step>.mp3 / .glb is in the store.
C5_NoCallForExistingOutput ==
    \A k \in Kinds : \A i \in 1..Len(pl.batch[k].tasks) : ~pl.batch[k].tasks[i].existed
\* a batch that reuses one step's output and derives another's
C5_Witness ==
    \E k \in Kinds : pl.batch[k].tasks # << >> /\ pl.batch[k].reused # << >>

\* C6 (as stated): a batch that follows a completed batch for the same
\* document, no file having been removed since, creates no task and counts
\* every step of the document as reused.
C6_SecondCallReusesAll ==
    \A k \in Kinds :
        (pl.batch[k].second /\ pl.batch[k].pc = "done") =>
            /\ pl.batch[k].tasks = << >>
            /\ pl.batch[k].count = Cardinality(StepsOf(ledger, pl.pdf_hash))
\* C6 (amended): such a batch creates no task for, and counts as reused,
\* every step whose output the batch before it reused or derived; a step
\* whose derivation failed there is derived again.
C6_SecondCallReusesDerived ==
    \A k \in Kinds :
        (pl.batch[k].second /\ pl.batch[k].pc \in {"waiting", "done"}) =>
            /\ pl.batch[k].prev_ok \cap TaskSteps(pl.batch[k]) = {}
            /\ pl.batch[k].prev_ok \subseteq ReusedSteps(pl.batch[k])
            /\ pl.batch[k].pc = "done" => pl.batch[k].count >= Cardinality(pl.batch[k].prev_ok)
\* the batch before derived one step and failed on another: the second
\* reuses the first and derives the other again
C6_Witness ==
    \E k \in Kinds :
        /\ pl.batch[k].second
        /\ pl.batch[k].pc = "done"
        /\ pl.batch[k].prev_ok # {}
        /\ pl.batch[k].prev_ok = ReusedSteps(pl.batch[k])
        /\ pl.batch[k].tasks # << >>

\* the ledger names the output of every task of batch b that returned one
Recorded(k) ==
    \A i \in 1..Len(pl.batch[k].tasks) :
        pl.batch[k].tasks[i].result = "ok" =>
            LET key == <<pl.pdf_hash, pl.batch[k].tasks[i].step>>
                name == StepFile(HashHex(pl.pdf_hash), pl.batch[k].tasks[i].step, k)
            IN /\ key \in DOMAIN ledger
               /\ IF k = "mp3" THEN ledger[key].mp3_filename = name
                  ELSE ledger[key].glb_filename = name
NarrationFailed ==
    \E i \in 1..Len(pl.batch["mp3"].tasks) : pl.batch["mp3"].tasks[i].result = "exc"

\* C7: when the narration call of one step raises, the narration batch is
\* not ended by it: the other narration calls and the model derivations run
\* to their ends, and once a batch has collected its results the ledger
\* names the output of each of its calls that returned one.
C7_FailureIsIsolated ==
    (pl.pc = "deriving" /\ NarrationFailed) =>
        /\ pl.batch["mp3"].pc \in {"waiting", "done"}
        /\ \A k \in Kinds : pl.batch[k].pc = "done" => Recorded(k)
\* both batches are done: one narration raised, another returned its
\* audio, a model was derived
C7_Witness ==
    /\ pl.pc = "deriving"
    /\ NarrationFailed
    /\ \A k \in Kinds :
          /\ pl.batch[k].pc = "done"
          /\ \E i \in 1..Len(pl.batch[k].tasks) : pl.batch[k].tasks[i].result = "ok"

\* C8 (as stated): get_mp3 for a step whose mp3_filename is null makes one
\* narration call and, the call having returned the audio, answers with it.
\* The name get_mp3 calls to record the file is not defined in database.py:
\* the request ends in a 500 and the row keeps its null.
C8_AudioIsDerivedOnDemand ==
    (last.op = "get_mp3" /\ last.pre = "null" /\ last.derived = "ok") => last.status = 200

\* C9: a request for an image, an instruction text, a source document or a
\* model that finds no row, no reference in the row, or no file in the
\* store, is answered 404, and changes neither the ledger nor the store nor
\* any request in flight (it makes no derivation call).
C9_MissingIsNotFound ==
    [][(/\ last' # last
        /\ last'.op \in {"get_image", "get_glb", "get_instruction", "get_pdf"}
        /\ last'.pre \in Absent)
       => (last'.status = 404 /\ UNCHANGED <<ledger, committed, files, pl, acc>>)]_vars
\* a model was derived and recorded, its file was removed, and it was
\* asked for
C9_Witness ==
    /\ last.op = "get_glb"
    /\ last.pre = "nofile"
    /\ \E k \in DOMAIN ledger : ledger[k].glb_filename # NoFile /\ ~PathExists(files, ledger[k].glb_filename)

\* C10 (as stated): when calculate_pdf_hash returns the empty identity the
\* ingestion is aborted and no derivation batch is started.  The pipeline
\* does not look at the hash: it starts the batches the flags ask for, with
\* the empty identity as their key.
C10_EmptyIdentityAborts ==
    (pl.pc = "deriving" /\ pl.pdf_hash = EmptyHash) => \A k \in Kinds : pl.batch[k].pc = "off"

\* the instructional entries of the stored reply whose source image was in
\* the store when the reply was stored (no file is removed while the
\* request derives)
EntriesWithImage ==
    {i \in 1..Len(Entries) : PathExists(files, pl.image_filenames[Entries[i].image_index + 1])}

\* C11 (as stated): an instructional entry whose source image is missing is
\* dropped, no row is recorded for it, and the remaining entries are stored.
\* store_gemini_results skips only the copy: it writes the instruction file
\* and inserts the row, which names a copy that was never made.
C11_MissingImageIsDropped ==
    Materialized => Cardinality(StepsOf(ledger, pl.pdf_hash)) = Cardinality(EntriesWithImage)

\* the asset field of a row that batch k writes
AssetField(row, k) == IF k = "mp3" THEN row.mp3_filename ELSE row.glb_filename
\* the tasks of batch b whose call raised or returned nothing
FailedTasks(b) == {i \in 1..Len(b.tasks) : b.tasks[i].result # "ok"}

\* C12: when a batch collects its results, the asset field of a step whose
\* call failed is left as it was (unset if it was unset), the field of every
\* step whose call returned a file is set, and the count the batch reports
\* is the number of its steps less the failed ones (generated + reused).
C12_FailedStepStaysUnset ==
    [][\A k \in Kinds :
          (pl.batch[k].pc = "waiting" /\ pl'.batch[k].pc # "waiting") =>
              LET b == pl.batch[k] IN
              /\ \A i \in 1..Len(b.tasks) :
                    LET key == <<pl.pdf_hash, b.tasks[i].step>> IN
                    /\ key \in DOMAIN ledger /\ key \in DOMAIN ledger'
                    /\ IF i \in FailedTasks(b)
                       THEN AssetField(ledger'[key], k) = AssetField(ledger[key], k)
                       ELSE AssetField(ledger'[key], k) = StepFile(HashHex(pl.pdf_hash), b.tasks[i].step, k)
              /\ pl'.batch[k].pc = "done" =>
                    pl'.batch[k].count = Len(b.tasks) + Len(b.reused) - Cardinality(FailedTasks(b))]_vars
\* a batch has collected a failure and a success: the failed step's field
\* is unset and the count leaves it out
C12_Witness ==
    \E k \in Kinds :
        /\ pl.batch[k].pc = "done"
        /\ Len(pl.batch[k].tasks) = 2
        /\ Cardinality(FailedTasks(pl.batch[k])) = 1
        /\ pl.batch[k].count = 1
        /\ \E i \in FailedTasks(pl.batch[k]) :
              AssetField(ledger[<<pl.pdf_hash, pl.batch[k].tasks[i].step>>], k) = NoFile

\* what materialization fixes of a row
Fixed(row) ==
    [pdf_filename |-> row.pdf_filename, image_filename |-> row.image_filename,
     instruction_filename |-> row.instruction_filename,
     page_number |-> row.page_number, y_percentage |-> row.y_percentage]

\* C13: once a document has rows, no step of an ingestion or of a batch
\* inserts or deletes a row of it, or changes a row's step, image,
\* instruction file or position: only mp3_filename and glb_filename change.
C13_RowsAreImmutable ==
    [][\A key \in DOMAIN ledger :
          /\ RowsOf(ledger', key[1]) = RowsOf(ledger, key[1])
          /\ Fixed(ledger'[key]) = Fixed(ledger[key])]_vars
\* the document is ingested again after both of its steps' assets were
\* derived, and its rows are as they were
C13_Witness ==
    /\ pl.pc = "deriving"
    /\ pl.stored = "skipped"
    /\ pl.run = 2
    /\ \A k \in Kinds : pl.batch[k].pc = "done"
    /\ RowsOf(ledger, pl.pdf_hash) # {}
    /\ \A key \in RowsOf(ledger, pl.pdf_hash) :
          ledger[key].mp3_filename # NoFile /\ ledger[key].glb_filename # NoFile

\* C14 (as stated): a batch that fails, also while it prepares its tasks,
\* does not keep the other batch from completing and from having its
\* outcome reported.  process_pdf_pipeline gathers the two batches without
\* return_exceptions: the error of the narration batch ends the request in
\* a 500 at once, and the count of the model batch is reported to nobody.
C14_BatchFailureIsNotFatal ==
    (/\ pl.pc = "deriving"
     /\ pl.responded
     /\ pl.batch["mp3"].pc = "raised"
     /\ pl.batch["glb"].pc # "off")
    => last.status = 200

\* C15 (as stated): missing credentials of a collaborator end the ingestion
\* before any partial work, file extraction included.  The classifier's key
\* is looked for inside process_manual_images, after extract_pdf_content
\* has written the images and the text of the upload into the store.
C15_CredentialsFailBeforeWork ==
    (last.op = "upload" /\ last.pre = "credentials") =>
        \A x \in DOMAIN files : x.kind \notin {"src", "manual"}

\* C16: when the narration call that get_mp3 makes for a missing audio file
\* raises, the request is answered with a 500 and the row's mp3_filename is
\* what it was before the request.
C16_FailedRegenerationIsAnError ==
    [][(acc.pc = "calling" /\ acc'.pc = "idle" /\ last'.derived = "exc") =>
          /\ last'.op = "get_mp3"
          /\ last'.status = 500
          /\ acc.row \in DOMAIN ledger'
          /\ ledger'[acc.row].mp3_filename = ledger[acc.row].mp3_filename]_vars
\* the audio of a step that never had one was asked for, and the call raised
C16_Witness ==
    /\ last.op = "get_mp3"
    /\ last.pre = "null"
    /\ last.derived = "exc"
    /\ last.status = 500
    /\ acc.pc = "idle"

\* C17: when a batch collects its results, the asset field of step s changes
\* only if the call submitted for s returned a file, and then names the file
\* of s, whatever order the calls returned in and whichever steps were
\* reused and have no task.
C17_ResultGoesToItsStep ==
    [][\A k \in Kinds :
          (pl.batch[k].pc = "waiting" /\ pl'.batch[k].pc # "waiting") =>
              \A key \in RowsOf(ledger, pl.pdf_hash) :
                  /\ key \in DOMAIN ledger'
                  /\ AssetField(ledger'[key], k) # AssetField(ledger[key], k) =>
                        /\ AssetField(ledger'[key], k) = StepFile(HashHex(pl.pdf_hash), key[2], k)
                        /\ \E i \in 1..Len(pl.batch[k].tasks) :
                              /\ pl.batch[k].tasks[i].step = key[2]
                              /\ pl.batch[k].tasks[i].result = "ok"]_vars
\* the second call of a batch returned before the first, which raised: the
\* ledger has the second step's file and not the first's
C17_Witness ==
    \E k \in Kinds :
        LET b == pl.batch[k] IN
        /\ b.pc = "done"
        /\ Len(b.tasks) = 2
        /\ b.first = 2
        /\ b.tasks[1].result = "exc"
        /\ b.tasks[2].result = "ok"
        /\ AssetField(ledger[<<pl.pdf_hash, b.tasks[1].step>>], k) = NoFile
        /\ AssetField(ledger[<<pl.pdf_hash, b.tasks[2].step>>], k) =
               StepFile(HashHex(pl.pdf_hash), b.tasks[2].step, k)

\* a call of batch k has returned a file and the batch has not collected it
ReturnedNotCollected(k) ==
    /\ pl.pc = "deriving"
    /\ pl.batch[k].pc = "waiting"
    /\ \E i \in 1..Len(pl.batch[k].tasks) : pl.batch[k].tasks[i].result = "ok"

\* C18 (as stated): a call that never returns stalls only its own task, the
\* result of every other call of the batch is still collected and written
\* to the ledger.  The batch awaits the gather of all its calls before it
\* looks at any result: while one call is out, nothing is collected.
C18_HungCallStallsOnlyItself ==
    \A k \in Kinds : ReturnedNotCollected(k) ~> (pl.batch[k].pc # "waiting")

\* C19 (as stated): every ledger write is committed on its own and at once,
\* so between two steps of the server nothing written is uncommitted.  The
\* inserts of store_gemini_results share one transaction, committed after
\* the loop: when the loop raises, the rows inserted before it stay in the
\* open transaction of the shared connection.
C19_WritesAreCommittedAtOnce == committed = ledger

\* C20: every instruction_filename, and every mp3_filename and glb_filename
\* that is set, is <hash-prefix>-<step>.<ext> for the hash and the step of
\* its own row.
C20_NamesFollowTheConvention ==
    \A key \in DOMAIN ledger :
        LET hash_hex == HashHex(key[1])
            row == ledger[key]
        IN /\ row.instruction_filename = StepFile(hash_hex, key[2], "txt")
           /\ row.mp3_filename \in {NoFile, StepFile(hash_hex, key[2], "mp3")}
           /\ row.glb_filename \in {NoFile, StepFile(hash_hex, key[2], "glb")}
\* step 1 has all three names, its audio recorded from a call's result in
\* an earlier request and its model recorded as found in the store
C20_Witness ==
    /\ pl.pc = "deriving"
    /\ pl.run = 2
    /\ <<pl.pdf_hash, 1>> \in DOMAIN ledger
    /\ ledger[<<pl.pdf_hash, 1>>].mp3_filename # NoFile
    /\ ledger[<<pl.pdf_hash, 1>>].glb_filename # NoFile
    /\ 1 \in ReusedSteps(pl.batch["glb"])

\* the bytes a digest was computed from (SHA-256 taken as collision-free)
ContentOf(h) == h[1]
C23_PresentAudioIsServedAsIs ==
    [][/\ (acc.pc = "idle" /\ acc'.pc = "calling")
            => LET mp3_filename == ledger[acc'.row].mp3_filename
               IN mp3_filename = NoFile \/ ~PathExists(files, mp3_filename)
       /\ (last' # last /\ last'.op = "get_mp3" /\ last'.status = 200)
            => UNCHANGED <<ledger, committed, files, acc, pl>>]_vars
\* an audio request has been served from the store
C23_Witness ==
    /\ last = Response("get_mp3", 200, "present")
    /\ acc.pc = "idle"
    /\ \E k \in DOMAIN ledger :
           ledger[k].mp3_filename # NoFile /\ PathExists(files, ledger[k].mp3_filename)

\* C24: a row is created with its image and instruction filenames set and
\* its audio and model filenames unset; its page_number and y_percentage
\* are those of the position entry at the image_index of the classifier
\* entry it was made of, and null when the position list has no entry there.
C24_RowIsCreatedComplete ==
    [][\A k \in DOMAIN ledger' \ DOMAIN ledger :
          LET row == ledger'[k] IN
          /\ row.image_filename # NoFile
          /\ row.instruction_filename # NoFile
          /\ row.mp3_filename = NoFile
          /\ row.glb_filename = NoFile
          /\ (pl'.pc = "deriving" /\ pl'.stored = "stored") =>
                 LET position_data ==
                         pl.image_positions[Instructional(pl'.matches)[k[2] + 1].image_index + 1]
                 IN IF position_data.present
                    THEN /\ row.page_number = position_data.page_number
                         /\ row.y_percentage = position_data.y_percentage
                    ELSE row.page_number = NullNum /\ row.y_percentage = NullNum]_vars
\* a document was stored with one step made of an image whose position is
\* known and one made of an image whose position is not
C24_Witness ==
    /\ Materialized
    /\ \A k \in Kinds : pl.batch[k].pc \in {"ready", "off"}
    /\ \E k1 \in RowsOf(ledger, pl.pdf_hash), k2 \in RowsOf(ledger, pl.pdf_hash) :
           /\ ledger[k1].page_number # NullNum /\ ledger[k1].y_percentage # NullNum
           /\ ledger[k2].page_number = NullNum /\ ledger[k2].y_percentage = NullNum
           /\ ledger[k1].mp3_filename = NoFile /\ ledger[k1].glb_filename = NoFile

\* the steps of document h a batch of kind k reaches: the narration loop
\* ends at the first step that has neither an audio nor an instruction file
Enumerated(h, k) ==
    {s \in StepsOf(ledger, h) :
        k = "mp3" => \A s2 \in StepsOf(ledger, h) :
            s2 < s => \/ PathExists(files, StepFile(HashHex(h), s2, "mp3"))
                      \/ PathExists(files, ledger[<<h, s2>>].instruction_filename)}
\* C25: when a batch enumerates a step whose output file
\* <hash-prefix>-<step>.<ext> is in the store, it writes that name into the
\* step's field, whatever the field held, and counts the step as reused.
C25_ExistingOutputIsRecorded ==
    [][\A k \in Kinds :
          (pl.pc = "deriving" /\ pl.batch[k].pc = "ready"
              /\ (pl'.pc = "idle" \/ pl'.batch[k].pc # "ready"))
          => \A s \in Enumerated(pl.pdf_hash, k) :
                LET name == StepFile(HashHex(pl.pdf_hash), s, k)
                IN PathExists(files, name) =>
                      /\ AssetField(ledger'[<<pl.pdf_hash, s>>], k) = name
                      /\ pl'.pc = "deriving" =>
                             /\ s \in ReusedSteps(pl'.batch[k])
                             /\ s \notin TaskSteps(pl'.batch[k])]_vars
\* an audio request regenerated the audio of a step whose field was null and
\* left the field null; the next ingestion found the file, recorded its
\* name and counted every step as reused
C25_Witness ==
    /\ last = [Response("get_mp3", 500, "null") EXCEPT !.derived = "ok"]
    /\ pl.pc = "deriving"
    /\ pl.batch["mp3"].pc = "done"
    /\ pl.batch["mp3"].tasks = << >>
    /\ ReusedSteps(pl.batch["mp3"]) = StepsOf(ledger, pl.pdf_hash)
    /\ pl.batch["mp3"].count = Cardinality(StepsOf(ledger, pl.pdf_hash))
    /\ StepsOf(ledger, pl.pdf_hash) # {}
    /\ \A s \in StepsOf(ledger, pl.pdf_hash) :
           ledger[<<pl.pdf_hash, s>>].mp3_filename = StepFile(HashHex(pl.pdf_hash), s, "mp3")

\* C26: the text given to the narration call for step s, by the batch and
\* by the audio request alike, is the instruction_description of the
\* classifier entry stored as step s, whatever the title and description.
C26_NarratedTextIsDescription ==
    Materialized =>
        /\ \A i \in 1..Len(pl.batch["mp3"].tasks) :
               pl.batch["mp3"].tasks[i].text
                   = Entries[pl.batch["mp3"].tasks[i].step + 1].instruction_description
        /\ (acc.pc = "calling" /\ acc.row[1] = pl.pdf_hash)
               => acc.text = Entries[acc.step + 1].instruction_description

\* C27: a narration or 3D call is started only for a step that has a row:
\* the tasks a batch creates are for steps in the ledger, an audio request
\* calls for the row it fetched, and no row of the document is added once
\* its batches have been scheduled.
C27_CallsFollowMaterialization ==
    [][/\ \A k \in Kinds :
              (pl.pc = "deriving" /\ pl.batch[k].pc = "ready" /\ pl'.pc = "deriving")
                  => \A i \in 1..Len(pl'.batch[k].tasks) :
                         <<pl.pdf_hash, pl'.batch[k].tasks[i].step>> \in DOMAIN ledger
       /\ (acc.pc = "idle" /\ acc'.pc = "calling")
              => /\ acc'.row \in DOMAIN ledger
                 /\ acc'.row[2] = acc'.step
                 /\ Like(acc'.hash, acc'.row[1])
       /\ pl.pc = "deriving" => DOMAIN ledger' = DOMAIN ledger]_vars
\* both batches of a request wait for the calls they made for the two
\* steps the request stored
C27_Witness ==
    /\ Materialized
    /\ \A k \in Kinds :
           /\ pl.batch[k].pc = "waiting"
           /\ TaskSteps(pl.batch[k]) = {0, 1}
           /\ \A i \in 1..Len(pl.batch[k].tasks) : pl.batch[k].tasks[i].result = "pending"
    /\ StepsOf(ledger, pl.pdf_hash) = {0, 1}

\* the flag of a request for the batch of kind k, and the count it reports
FlagOf(p, k) == IF k = "mp3" THEN p.generate_tts ELSE p.generate_3d
ReportOf(r, k) == IF k = "mp3" THEN r.tts_files_generated ELSE r.models_generated
\* the step answers the upload request in flight with a 200
Answered ==
    /\ \/ pl.pc = "classifying" /\ pl'.pc = "idle"
       \/ pl.pc = "deriving" /\ ~pl.responded /\ (pl'.pc = "idle" \/ pl'.responded)
    /\ last'.op = "upload"
    /\ last'.status = 200
\* C28: a request with the flag of a kind off makes no call of that kind,
\* leaves the fields of that kind as they are and reports no count for it;
\* a request reports, for each kind whose flag is on, the count returned by
\* the batch of that kind, which has run.
C28_FlagsSelectTheBatches ==
    [][\A k \in Kinds :
          /\ (pl.pc \in {"classifying", "deriving"} /\ ~FlagOf(pl, k)) =>
                 /\ \A key \in DOMAIN ledger :
                        /\ key \in DOMAIN ledger'
                        /\ AssetField(ledger'[key], k) = AssetField(ledger[key], k)
                 /\ \A key \in DOMAIN ledger' \ DOMAIN ledger : AssetField(ledger'[key], k) = NoFile
                 /\ pl'.pc = "deriving" => pl'.batch[k].pc = "off" /\ pl'.batch[k].tasks = << >>
                 /\ Answered => ReportOf(last', k) = NullNum
          /\ (Answered /\ FlagOf(pl, k)) =>
                 /\ pl.batch[k].pc = "done"
                 /\ pl.batch[k].count # NullNum
                 /\ ReportOf(last', k) = pl.batch[k].count]_vars
\* a request without narration has been answered: it reports two models,
\* no narration count, and no step has an audio
C28_Witness ==
    /\ pl.pc = "idle"
    /\ last.op = "upload" /\ last.status = 200 /\ last.pre = "stored"
    /\ last.tts_files_generated = NullNum
    /\ last.models_generated = 2
    /\ \A key \in DOMAIN ledger :
           ledger[key].mp3_filename = NoFile /\ ledger[key].glb_filename # NoFile
    /\ Cardinality(DOMAIN ledger) = 2

NoModelProduced(reply) ==
    reply.created /\ (reply.status # "success" \/ ~reply.downloaded \/ ~reply.has_glb)
\* C30: image_to_model returns no filename, and does not raise, when no
\* model was produced; the batch then leaves the glb_filename of that step
\* as it was and counts the step neither as generated nor as reused.
C30_NoModelIsNotAnError ==
    [][/\ \A i \in 1..Len(pl.batch["glb"].tasks) :
              (/\ pl.pc = "deriving" /\ pl'.pc = "deriving"
               /\ Len(pl'.batch["glb"].tasks) = Len(pl.batch["glb"].tasks)
               /\ pl.batch["glb"].tasks[i].result = "pending"
               /\ pl'.batch["glb"].tasks[i].result # "pending"
               /\ pl.batch["glb"].tasks[i].bytes # NoBytes
               /\ NoModelProduced(last'.reply))
              => /\ last'.out.raised = ""
                 /\ last'.out.returned = NoFile
                 /\ pl'.batch["glb"].tasks[i].result = "none"
       /\ (pl.pc = "deriving" /\ pl.batch["glb"].pc = "waiting"
              /\ pl'.pc = "deriving" /\ pl'.batch["glb"].pc = "done")
              => LET b == pl.batch["glb"]
                     none == {i \in 1..Len(b.tasks) : b.tasks[i].result = "none"}
                 IN /\ \A i \in none :
                           /\ ledger'[<<pl.pdf_hash, b.tasks[i].step>>].glb_filename
                                  = ledger[<<pl.pdf_hash, b.tasks[i].step>>].glb_filename
                           /\ b.tasks[i].step \notin ReusedSteps(b)
                    /\ pl'.batch["glb"].count = Cardinality(OkSteps(b)) + Len(b.reused)]_vars
\* a batch of two calls is done: one produced a model, the other's download
\* had no GLB; one step is counted and the other has no model
C30_Witness ==
    /\ pl.pc = "deriving"
    /\ pl.batch["glb"].pc = "done"
    /\ Len(pl.batch["glb"].tasks) = 2
    /\ \E i \in 1..2 : /\ pl.batch["glb"].tasks[i].result = "none"
                       /\ ledger[<<pl.pdf_hash, pl.batch["glb"].tasks[i].step>>].glb_filename = NoFile
    /\ \E i \in 1..2 : pl.batch["glb"].tasks[i].result = "ok"
    /\ pl.batch["glb"].count = 1
    /\ last.op = "image_to_model"
    /\ last.reply = [created |-> TRUE, status |-> "success", downloaded |-> TRUE, has_glb |-> FALSE]

\* C31: when a batch has finished and no file was removed while it ran,
\* every step of the document whose field of the batch's kind is set names
\* a file that is in the store.
C31_FinishedBatchLeavesNoDanglingName ==
    \A k \in Kinds :
        (pl.pc = "deriving" /\ pl.batch[k].pc = "done" /\ ~pl.batch[k].dirty) =>
            \A s \in StepsOf(ledger, pl.pdf_hash) :
                LET name == AssetField(ledger[<<pl.pdf_hash, s>>], k)
                IN name # NoFile => PathExists(files, name)

\* C32: when store_gemini_results raises part-way through a reply, no row of
\* the document is left in the ledger, neither visible nor committed.
C32_AbortedStoreLeavesNoRow ==
    [][(pl.pc = "classifying" /\ pl'.pc = "idle"
           /\ last'.op = "upload" /\ last'.status = 500 /\ last'.pre = "store")
          => LET h == calculate_pdf_hash(files, pl.pdf_filename)
             IN RowsOf(ledger', h) = {} /\ RowsOf(committed', h) = {}]_vars

\* C33: no two narration calls are in flight for the same step of the same
\* document: an audio request does not call tts for a step while a task of
\* the narration batch for that step is pending.
C33_OneCallPerOutput ==
    ~(/\ acc.pc = "calling"
      /\ pl.pc = "deriving"
      /\ pl.batch["mp3"].pc = "waiting"
      /\ acc.row[1] = pl.pdf_hash
      /\ StepFile(acc.hash, acc.step, "mp3") \notin DOMAIN files
      /\ \E i \in 1..Len(pl.batch["mp3"].tasks) :
             /\ pl.batch["mp3"].tasks[i].result = "pending"
             /\ pl.batch["mp3"].tasks[i].step = acc.step
             /\ StepFile(HashHex(pl.pdf_hash), acc.step, "mp3") = StepFile(acc.hash, acc.step, "mp3"))

\* C34: the steps_processed a request returns is the number of rows the
\* ledger holds for the document, on a first ingestion and on a
\* re-ingestion alike.
C34_StepsProcessedCountsRows ==
    (pl.pc = "deriving" /\ pl.stored \in {"stored", "skipped"}) =>
        pl.steps_processed = Cardinality(RowsOf(ledger, pl.pdf_hash))

\* C35: the document served for the key of a stored document has that key:
\* the bytes get_pdf serves for h hash to an identity whose prefix is h.
C35_ServedDocumentHasItsKey ==
    \A k \in DOMAIN ledger :
        \A bytes \in ServedPdf(files, ledger, HashHex(k[1])) :
            HashHex(SHA256(bytes)) = HashHex(k[1])

\* C36: a retrieval by (key, step) selects only StepRecords of the document
\* whose identity prefix equals the key, whatever key is typed (shorter,
\* or with pattern characters).
C36_KeySelectsItsDocumentOnly ==
    \A hash \in TypedKeys :
        /\ \A step \in 0..1 : \A k \in MatchingRows(ledger, hash, step) : HashHex(k[1]) = hash
        /\ \A k \in MatchingDocs(ledger, hash) : HashHex(k[1]) = hash

\* C37: the count of a finished orchestrator batch is the number of steps
\* reused plus the number newly derived, is at most the number of
\* StepRecords of the document, and is the number of steps whose field the
\* run wrote: those steps name their file, the other steps are left as
\* they were.
C37_CountIsReusedPlusDerived ==
    [][\A k \in Kinds :
          (pl.pc = "deriving" /\ pl.batch[k].pc # "done"
              /\ pl'.pc = "deriving" /\ pl'.batch[k].pc = "done")
            => LET b == pl'.batch[k]
                   h == pl'.pdf_hash
                   written == ReusedSteps(b) \cup OkSteps(b)
               IN /\ b.count = Len(b.reused) + Cardinality(OkSteps(b))
                  /\ b.count = Cardinality(written)
                  /\ b.count <= Cardinality(RowsOf(ledger', h))
                  /\ \A s \in StepsOf(ledger', h) :
                         IF s \in written
                         THEN AssetField(ledger'[<<h, s>>], k) = StepFile(HashHex(h), s, k)
                         ELSE AssetField(ledger'[<<h, s>>], k) = AssetField(ledger[<<h, s>>], k)]_vars
\* a batch is done that reused the file of one step and derived the file
\* of another: its count is 2
C37_Witness ==
    \E k \in Kinds :
        /\ pl.pc = "deriving" /\ pl.batch[k].pc = "done"
        /\ pl.batch[k].reused # << >> /\ OkSteps(pl.batch[k]) # {}
        /\ pl.batch[k].count = 2

\* C38: an upload whose filename does not end in .pdf is answered 400 and
\* nothing else happens: the 400 answer leaves the store, the ledger and
\* the pipeline as they were, no file of such a name is ever in the store
\* and no classification is ever entered for one.
C38_NonPdfUploadRejectedFirst ==
    [][/\ (last' # last /\ last'.op = "upload" /\ last'.status = 400)
            => UNCHANGED <<files, ledger, committed, pl, acc, hist, nrun>>
       /\ \A filename \in DOMAIN files' : filename.kind = "pdf" => EndsWithPdf(filename)
       /\ pl'.pc # "idle" => pl'.pdf_filename.ext = "pdf"]_vars
\* after a document was stored, an upload under a filename without .pdf
\* was answered 400
C38_Witness ==
    /\ last.op = "upload" /\ last.status = 400 /\ last.pre = "filename"
    /\ ledger # << >>
    /\ pl.pc = "idle"

====
